---- MODULE Spec2Model ----
(***************************************************************************)
(* Model of the Snowflake schema-evolution assistant:                      *)
(*   schema_utils.py   infer_schema_from_df, compare_schemas               *)
(*   embedding_utils.py top_k_similar                                      *)
(*   llm_utils.py      chat_llm, _chat_ollama, _chat_remote                *)
(*   chatbot.py        _load_docs, answer_question                         *)
(*   app.py            the Streamlit session (latest_context)              *)
(* Python strings whose characters matter (column names, dtype             *)
(* descriptors) are sequences of characters; a dict is the sequence of its *)
(* (key, value) items in insertion order, keys unique.                     *)
(***************************************************************************)
EXTENDS Integers, Sequences, FiniteSets, TLC

VARIABLES
    \* ---- compare_schemas (schema_utils.py) ----
    existing,       \* first argument: dict column -> type label
    new,            \* second argument
    diffOut,        \* result of the latest compare_schemas call
    prevDiff,       \* inputs and result of the call before it
    \* ---- infer_schema_from_df (schema_utils.py) ----
    dtype,          \* str(df[col].dtype) of the column being classified
    label,          \* schema[col] once the column is classified
    \* ---- top_k_similar (embedding_utils.py) ----
    corpus_vecs,    \* the stored document vectors, one row per document
    qv,             \* the embedded query
    k,              \* how many matches are asked for
    topk,           \* the list top_k_similar returned
    \* ---- chat_llm (llm_utils.py) ----
    llmCfg,         \* LLM_PROVIDER and LLM_ENDPOINT
    llmResp,        \* what the HTTP request of the call meets
    llmOut,         \* how the chat_llm call ended
    httpRequests,   \* requests.post calls made so far
    \* ---- chatbot.py: process-wide document state ----
    DOC_TEXTS,      \* _DOC_TEXTS
    DOC_EMB,        \* _DOC_EMB (none: it is None)
    docsDir,        \* the files docs/*.md and docs/*.txt on disk
    globCount,      \* times _load_docs has listed the directory
    embedCount,     \* times _load_docs has called embed_texts
    lastAnswer,     \* the latest answer_question call
    \* ---- app.py: one Streamlit session ----
    latest_context, \* st.session_state.latest_context
    lastCycle,      \* the latest diff-and-generate cycle that completed
    queryLog,       \* the rows of user_logs.csv
    event           \* the latest user action and how it ended

diffVars == <<existing, new, diffOut, prevDiff>>

normVars == <<dtype, label>>

topkVars == <<corpus_vecs, qv, k, topk>>

llmVars == <<llmCfg, llmResp, llmOut, httpRequests>>

docVars == <<DOC_TEXTS, DOC_EMB, docsDir, globCount, embedCount, lastAnswer>>

sessionVars == <<latest_context, lastCycle, queryLog, event>>

appVars == <<docVars, sessionVars>>

vars == <<diffVars, normVars, topkVars, llmVars, appVars>>

\* ------------------------------------------------------------------------
\* Bounds of the model
\* ------------------------------------------------------------------------
MaxCols == 2        \* columns per schema
MaxFrags == 2       \* fragments a dtype descriptor is put together from
MaxDocs == 3        \* documents in the corpus handed to top_k_similar
MaxK == 3           \* largest k asked of top_k_similar
MaxList == 1        \* entries of a JSON array in a response body
MaxFiles == 2       \* files the docs directory can hold
MaxActions == 3     \* user actions in one session

\* ------------------------------------------------------------------------
\* Generic helpers
\* ------------------------------------------------------------------------
Range(s) == {s[i] : i \in DOMAIN s}

\* all sequences listing every element of the finite set S exactly once
Listings(S) ==
    {s \in [1..Cardinality(S) -> S] : Range(s) = S}

\* ------------------------------------------------------------------------
\* Python str ordering: lexicographic by code point, a proper prefix first
\* ------------------------------------------------------------------------
RECURSIVE StrLess(_, _)
StrLess(a, b) ==
    IF b = <<>> THEN FALSE
    ELSE IF a = <<>> THEN TRUE
    ELSE IF a[1] # b[1] THEN a[1] < b[1]
    ELSE StrLess(Tail(a), Tail(b))

\* list.sort() / sorted(): insert each element after every element that is
\* not greater than it (stable, ascending)
RECURSIVE InsertSorted(_, _)
InsertSorted(x, s) ==
    IF s = <<>> THEN <<x>>
    ELSE IF StrLess(x, s[1]) THEN <<x>> \o s
    ELSE <<s[1]>> \o InsertSorted(x, Tail(s))

RECURSIVE Sorted(_)
Sorted(s) ==
    IF s = <<>> THEN <<>>
    ELSE InsertSorted(s[Len(s)], Sorted(SubSeq(s, 1, Len(s) - 1)))

\* ------------------------------------------------------------------------
\* Schemas
\* ------------------------------------------------------------------------
\* column names as code points: "B", "a", "ab", "b"
ColNames == {<<66>>, <<97>>, <<97, 98>>, <<98>>}

TypeLabels == {"INTEGER", "VARCHAR"}

Keys(d) == {d[i][1] : i \in DOMAIN d}

Get(d, key) == d[CHOOSE i \in DOMAIN d : d[i][1] = key][2]

\* the dict as a mapping, insertion order forgotten
AsMap(d) == {<<d[i][1], d[i][2]>> : i \in DOMAIN d}

Dicts ==
    UNION {{d \in [1..n -> ColNames \X TypeLabels] :
               \A i, j \in 1..n : d[i][1] = d[j][1] => i = j} : n \in 0..MaxCols}

\* the same mapping, items inserted in any order
Reinsertions(d) == {e \in [DOMAIN d -> Range(d)] : Range(e) = Range(d)}

\* ------------------------------------------------------------------------
\* compare_schemas.  list(set(...)) and iteration over a set visit the
\* elements in an order the language does not fix: the order is an input.
\* ------------------------------------------------------------------------
AddedKeys(ex, nw) == Keys(nw) \ Keys(ex)

RemovedKeys(ex, nw) == Keys(ex) \ Keys(nw)

CommonKeys(ex, nw) == Keys(ex) \cap Keys(nw)

\* mutant: the baseline's keys are not subtracted
NewCols_NoMinus(ex, nw, listing) ==
    Sorted(CHOOSE l \in Listings(Keys(nw)) : TRUE)

\* sorted(list(set(new) - set(existing))); listing is list(...) of that set
NewCols(ex, nw, listing) == Sorted(listing)

\* mutant: sorted() left out
MissingCols_Unsorted(ex, nw, listing) == listing

\* sorted(list(set(existing) - set(new)))
MissingCols(ex, nw, listing) == Sorted(listing)

\* mutant: every common column is reported, the labels are not compared
ConflictsUnsorted_NoCompare(ex, nw, listing) == listing

\* the loop over set(existing).intersection(new), visited in order listing
ConflictsUnsorted(ex, nw, listing) ==
    SelectSeq(listing, LAMBDA col : Get(ex, col) # Get(nw, col))

\* mutant: conflicts.sort() left out
Conflicts_NoSort(ex, nw, listing) == ConflictsUnsorted(ex, nw, listing)

\* the loop, then conflicts.sort()
Conflicts(ex, nw, listing) == Sorted(ConflictsUnsorted(ex, nw, listing))

NoDiff == [called |-> FALSE, added |-> <<>>, removed |-> <<>>, conflicts |-> <<>>]

NoPrev == [called |-> FALSE, existing |-> <<>>, new |-> <<>>,
           added |-> <<>>, removed |-> <<>>, conflicts |-> <<>>]

IdleDiff ==
    /\ existing = <<>>
    /\ new = <<>>
    /\ diffOut = NoDiff
    /\ prevDiff = NoPrev

IdleNorm ==
    /\ dtype = <<>>
    /\ label = [set |-> FALSE, value |-> ""]

\* ------------------------------------------------------------------------
\* JSON values of a response body (r.json()).  A str is the sequence of its
\* words, "" the empty sequence.
\* ------------------------------------------------------------------------
JNull == [t |-> "null"]

JStr(x) == [t |-> "str", s |-> x]

JObj(f) == [t |-> "obj", o |-> f]

JList(xs) == [t |-> "list", l |-> xs]

NotJson == [t |-> "notjson"]

EmptyStr == JStr(<<>>)

\* every dict with keys among ks, the value of key kk drawn from vals[kk]
ObjectsOver(ks, vals) ==
    UNION {{JObj(f) : f \in [K -> UNION {vals[kk] : kk \in K}] \cap
                            {g \in [K -> UNION {vals[kk] : kk \in K}] :
                                \A kk \in K : g[kk] \in vals[kk]}} :
           K \in SUBSET ks}

ListsOver(vals) == UNION {{JList(xs) : xs \in [1..n -> vals]} : n \in 0..MaxList}

JLeaves == {JNull, EmptyStr, JStr(<<"hi">>)}

\* what may sit under "message": {} , {"content": leaf}, or not a dict
JMessages == ObjectsOver({"content"}, [kk \in {"content"} |-> JLeaves]) \cup JLeaves

\* a chunk of a list-style reply, an entry of "choices"
JChunks == ObjectsOver({"message"}, [kk \in {"message"} |-> JMessages]) \cup JLeaves

TopLevelValues ==
    [kk \in {"message", "text", "choices"} |->
        CASE kk = "message" -> JMessages
          [] kk = "text"    -> JLeaves
          [] kk = "choices" -> ListsOver(JChunks) \cup JLeaves]

Bodies ==
    ObjectsOver({"message", "text", "choices"}, TopLevelValues)
        \cup ListsOver(JChunks) \cup JLeaves \cup {NotJson}

Responses ==
    {[net |-> "error", status |-> 0, body |-> NotJson]} \cup
    [net : {"ok"}, status : {200, 404, 503}, body : Bodies]

Configs == [provider : {"ollama", "remote"}, endpoint : {"", "https://llm"}]

NoLlmOut == [called |-> FALSE, raised |-> FALSE, value |-> JNull]

\* LLM_PROVIDER and LLM_ENDPOINT when nothing is configured
DefaultCfg == [provider |-> "ollama", endpoint |-> ""]

IdleLLM ==
    /\ llmCfg = DefaultCfg
    /\ llmResp = [net |-> "error", status |-> 0, body |-> NotJson]
    /\ llmOut = NoLlmOut
    /\ httpRequests = 0

NoEmb == [none |-> TRUE, rows |-> <<>>]

NoExtra == [none |-> TRUE, text |-> <<>>]

NoAnswer ==
    [called |-> FALSE, extra |-> NoExtra, raised |-> FALSE, value |-> JNull,
     ctxExtra |-> <<>>, ctxDocs |-> <<>>, embedRaised |-> FALSE,
     gen |-> [raised |-> TRUE, value |-> JNull]]

NoCycle ==
    [done |-> FALSE, mode |-> "", baseline |-> <<>>, candidate |-> <<>>,
     sql |-> JNull]

NoEvent == [kind |-> "start", raised |-> FALSE, n |-> 0]

IdleApp ==
    /\ DOC_TEXTS = <<>>
    /\ DOC_EMB = NoEmb
    /\ docsDir = {}
    /\ globCount = 0
    /\ embedCount = 0
    /\ lastAnswer = NoAnswer
    /\ latest_context = <<>>
    /\ lastCycle = NoCycle
    /\ queryLog = <<>>
    /\ event = NoEvent

NoTopK == [called |-> FALSE, pairs |-> <<>>]

IdleTopK ==
    /\ corpus_vecs = <<>>
    /\ qv = <<0, 0>>
    /\ k = 0
    /\ topk = NoTopK

InitDiff ==
    /\ IdleNorm
    /\ IdleTopK
    /\ IdleLLM
    /\ IdleApp
    /\ existing \in Dicts
    /\ new \in Dicts
    /\ diffOut = NoDiff
    /\ prevDiff = NoPrev

compare_schemas ==
    /\ ~diffOut.called
    /\ \E la \in Listings(AddedKeys(existing, new)),
          lr \in Listings(RemovedKeys(existing, new)),
          lc \in Listings(CommonKeys(existing, new)) :
          diffOut' = [called    |-> TRUE,
                      added     |-> NewCols(existing, new, la),
                      removed   |-> MissingCols(existing, new, lr),
                      conflicts |-> Conflicts(existing, new, lc)]
    /\ UNCHANGED <<existing, new, prevDiff, normVars, topkVars, llmVars, appVars>>

Remember ==
    prevDiff' = [called |-> TRUE, existing |-> existing, new |-> new,
                 added |-> diffOut.added, removed |-> diffOut.removed,
                 conflicts |-> diffOut.conflicts]

\* the caller builds the same two mappings again, items in another order
CallAgainReordered ==
    /\ diffOut.called /\ ~prevDiff.called
    /\ Remember
    /\ existing' \in Reinsertions(existing)
    /\ new' \in Reinsertions(new)
    /\ diffOut' = NoDiff
    /\ UNCHANGED <<normVars, topkVars, llmVars, appVars>>

\* the caller passes the two schemas the other way round
CallAgainSwapped ==
    /\ diffOut.called /\ ~prevDiff.called
    /\ Remember
    /\ existing' = new
    /\ new' = existing
    /\ diffOut' = NoDiff
    /\ UNCHANGED <<normVars, topkVars, llmVars, appVars>>

NextDiff ==
    \/ compare_schemas
    \/ CallAgainReordered
    \/ CallAgainSwapped

SpecDiff == InitDiff /\ [][NextDiff]_vars

\* ------------------------------------------------------------------------
\* Properties of compare_schemas
\* ------------------------------------------------------------------------
IsAscending(s) == \A i \in 1..(Len(s) - 1) : StrLess(s[i], s[i + 1])

NoRepeat(s) == \A i, j \in DOMAIN s : s[i] = s[j] => i = j

InCandidateOnly == {c \in ColNames : c \in Keys(new) /\ c \notin Keys(existing)}

InBaselineOnly == {c \in ColNames : c \in Keys(existing) /\ c \notin Keys(new)}

InBothLabelsDiffer ==
    {c \in ColNames : /\ c \in Keys(existing)
                      /\ c \in Keys(new)
                      /\ \E i \in DOMAIN existing, j \in DOMAIN new :
                            /\ existing[i][1] = c
                            /\ new[j][1] = c
                            /\ existing[i][2] # new[j][2]}

\* C1: compare_schemas(baseline, candidate) lists in added exactly the keys
\* of candidate absent from baseline, in removed exactly the keys of baseline
\* absent from candidate, in conflicts exactly the common keys whose type
\* labels differ; no key is listed twice.
C1_DiffExact ==
    diffOut.called =>
        /\ Range(diffOut.added) = InCandidateOnly
        /\ Range(diffOut.removed) = InBaselineOnly
        /\ Range(diffOut.conflicts) = InBothLabelsDiffer
        /\ NoRepeat(diffOut.added)
        /\ NoRepeat(diffOut.removed)
        /\ NoRepeat(diffOut.conflicts)

\* a call that found an added, a removed and a conflicting column
C1_Witness ==
    /\ diffOut.called
    /\ diffOut.added # <<>>
    /\ diffOut.removed # <<>>
    /\ diffOut.conflicts # <<>>

SameMappings ==
    /\ AsMap(prevDiff.existing) = AsMap(existing)
    /\ AsMap(prevDiff.new) = AsMap(new)

\* C8: the three sequences compare_schemas returns are in ascending
\* lexicographic order of column name, and two calls on equal mappings return
\* identical sequences whatever the order of the mappings' items.
C8_SortedAndDeterministic ==
    /\ diffOut.called =>
           /\ IsAscending(diffOut.added)
           /\ IsAscending(diffOut.removed)
           /\ IsAscending(diffOut.conflicts)
    /\ (diffOut.called /\ prevDiff.called /\ SameMappings) =>
           /\ diffOut.added = prevDiff.added
           /\ diffOut.removed = prevDiff.removed
           /\ diffOut.conflicts = prevDiff.conflicts

\* two calls on the same mappings with the items in another order, two
\* columns in conflict
C8_Witness ==
    /\ diffOut.called /\ prevDiff.called /\ SameMappings
    /\ existing # prevDiff.existing
    /\ new # prevDiff.new
    /\ Len(diffOut.conflicts) >= 2

ArgumentsSwapped ==
    /\ AsMap(prevDiff.existing) = AsMap(new)
    /\ AsMap(prevDiff.new) = AsMap(existing)

\* C9: compare_schemas(A, B).added = compare_schemas(B, A).removed and
\* compare_schemas(A, B).removed = compare_schemas(B, A).added.
C9_Symmetry ==
    (diffOut.called /\ prevDiff.called /\ ArgumentsSwapped) =>
        /\ prevDiff.added = diffOut.removed
        /\ prevDiff.removed = diffOut.added

\* a call and the call with the arguments swapped, two columns added
C9_Witness ==
    /\ diffOut.called /\ prevDiff.called /\ ArgumentsSwapped
    /\ Len(prevDiff.added) >= 2
    /\ AsMap(existing) # AsMap(new)

\* C10: added, removed and conflicts of one compare_schemas call are
\* pairwise disjoint.
C10_Disjoint ==
    diffOut.called =>
        /\ Range(diffOut.added) \cap Range(diffOut.removed) = {}
        /\ Range(diffOut.added) \cap Range(diffOut.conflicts) = {}
        /\ Range(diffOut.removed) \cap Range(diffOut.conflicts) = {}

\* a call whose three outputs are all non-empty, the candidate holding a
\* column in conflict
C10_Witness ==
    /\ diffOut.called
    /\ Len(diffOut.added) + Len(diffOut.removed) + Len(diffOut.conflicts) >= 3
    /\ diffOut.conflicts # <<>>
    /\ diffOut.added # <<>>

\* ------------------------------------------------------------------------
\* infer_schema_from_df: the type label of one column
\* ------------------------------------------------------------------------
\* pieces of the dtype names pandas and numpy print (int64, Int64, UInt8,
\* float32, Float64, bool, boolean, datetime64[ns], date, object, ...)
Frags ==
    { <<"i", "n", "t">>, <<"I", "n", "t">>, <<"i", "n">>, <<"t">>, <<"U">>,
      <<"f", "l", "o", "a", "t">>, <<"F", "l", "o", "a", "t">>,
      <<"b", "o", "o", "l">>, <<"B", "o", "o", "l">>,
      <<"d", "a", "t", "e">>, <<"D", "a", "t", "e">>, <<"t", "i", "m", "e">>,
      <<"o", "b", "j">>, <<"6", "4">> }

RECURSIVE Concat(_)
Concat(ss) == IF ss = <<>> THEN <<>> ELSE ss[1] \o Concat(Tail(ss))

Descriptors ==
    UNION {{Concat(fs) : fs \in [1..n -> Frags]} : n \in 0..MaxFrags}

\* Python's  sub in s  on str: s holds sub as a contiguous run, case and all
Contains(s, sub) ==
    \E i \in 1..(Len(s) - Len(sub) + 1) : SubSeq(s, i, i + Len(sub) - 1) = sub

\* the if / elif chain of the loop body
ColumnLabel(d) ==
    IF Contains(d, <<"i", "n", "t">>) THEN "INTEGER"
    ELSE IF Contains(d, <<"f", "l", "o", "a", "t">>) THEN "FLOAT"
    ELSE IF Contains(d, <<"b", "o", "o", "l">>) THEN "BOOLEAN"
    ELSE IF Contains(d, <<"d", "a", "t", "e", "t", "i", "m", "e">>)
            \/ Contains(d, <<"d", "a", "t", "e">>) THEN "TIMESTAMP"
    ELSE "VARCHAR"

InitNorm ==
    /\ IdleDiff
    /\ IdleTopK
    /\ IdleLLM
    /\ IdleApp
    /\ dtype \in Descriptors
    /\ label = [set |-> FALSE, value |-> ""]

\* one iteration of  for col in df.columns
infer_schema_column ==
    /\ ~label.set
    /\ label' = [set |-> TRUE, value |-> ColumnLabel(dtype)]
    /\ UNCHANGED <<dtype, diffVars, topkVars, llmVars, appVars>>

NextNorm == infer_schema_column

SpecNorm == InitNorm /\ [][NextNorm]_vars

\* ------------------------------------------------------------------------
\* Properties of the type normalizer
\* ------------------------------------------------------------------------
LowerChar(c) ==
    CASE c = "I" -> "i"
      [] c = "U" -> "u"
      [] c = "F" -> "f"
      [] c = "B" -> "b"
      [] c = "D" -> "d"
      [] OTHER -> c

Lower(s) == [i \in DOMAIN s |-> LowerChar(s[i])]

CanonicalLabels == {"INTEGER", "FLOAT", "BOOLEAN", "TIMESTAMP", "VARCHAR"}

\* the rule as the claim words it: first match wins, letter case ignored
CaseInsensitiveLabel(d) ==
    IF Contains(Lower(d), <<"i", "n", "t">>) THEN "INTEGER"
    ELSE IF Contains(Lower(d), <<"f", "l", "o", "a", "t">>) THEN "FLOAT"
    ELSE IF Contains(Lower(d), <<"b", "o", "o", "l">>) THEN "BOOLEAN"
    ELSE IF Contains(Lower(d), <<"d", "a", "t", "e">>) THEN "TIMESTAMP"
    ELSE "VARCHAR"

\* C2: every descriptor gets exactly one of the five labels, chosen by the
\* first-match-wins substring rule with letter case ignored, so that a
\* descriptor such as "Int64" gets the label of "int64".
C2_CaseInsensitiveRule ==
    label.set =>
        /\ label.value \in CanonicalLabels
        /\ label.value = CaseInsensitiveLabel(dtype)

\* what the code does hold to: the same rule with letter case respected
C2_CaseSensitiveRule ==
    label.set =>
        /\ label.value \in CanonicalLabels
        /\ (Lower(dtype) = dtype => label.value = CaseInsensitiveLabel(dtype))

\* ------------------------------------------------------------------------
\* top_k_similar.  Document i of the model is corpus index i - 1 of the code.
\* ------------------------------------------------------------------------
\* L2-normalized vectors with integer coordinates
UnitVecs == {<<1, 0>>, <<0, 1>>, <<-1, 0>>, <<0, -1>>}

Dot(a, b) == a[1] * b[1] + a[2] * b[2]

\* np.dot(doc_vecs, query_vec): one score per document
cosine_similarity_matrix(query_vec, doc_vecs) ==
    [i \in DOMAIN doc_vecs |-> Dot(doc_vecs[i], query_vec)]

\* np.argsort(sims), default kind: an ascending order of the scores; the
\* sort is not stable, the order among equal scores is whatever the build's
\* sorting kernel yields
ArgsortOutcomes(sims) ==
    {p \in Listings(DOMAIN sims) :
        \A i, j \in DOMAIN p : i < j => sims[p[i]] <= sims[p[j]]}

\* a[-n:] of Python: -0 is 0, so a[-0:] is the whole of a
LastSlice(a, n) ==
    IF n = 0 \/ n >= Len(a) THEN a ELSE SubSeq(a, Len(a) - n + 1, Len(a))

\* a[::-1]
Reversed(a) == [i \in DOMAIN a |-> a[Len(a) + 1 - i]]

\* mutant: the slice is not reversed
TopIndices_NoReverse(order, n) == LastSlice(order, n)

\* np.argsort(sims)[-k:][::-1]
TopIndices(order, n) == Reversed(LastSlice(order, n))

Corpora ==
    UNION {[1..n -> UnitVecs] : n \in 1..MaxDocs}

InitTopK ==
    /\ IdleDiff
    /\ IdleNorm
    /\ IdleLLM
    /\ IdleApp
    /\ corpus_vecs \in Corpora
    /\ qv \in UnitVecs
    /\ k \in 0..MaxK
    /\ topk = NoTopK

top_k_similar ==
    /\ ~topk.called
    /\ LET sims == cosine_similarity_matrix(qv, corpus_vecs)
       IN  \E order \in ArgsortOutcomes(sims) :
              LET idx == TopIndices(order, k)
              IN  topk' = [called |-> TRUE,
                           pairs  |-> [i \in DOMAIN idx |-> <<idx[i], sims[idx[i]]>>]]
    /\ UNCHANGED <<corpus_vecs, qv, k, diffVars, normVars, llmVars, appVars>>

NextTopK == top_k_similar

SpecTopK == InitTopK /\ [][NextTopK]_vars

\* ------------------------------------------------------------------------
\* Properties of top_k_similar
\* ------------------------------------------------------------------------
Score(i) == Dot(corpus_vecs[i], qv)

Returned == {topk.pairs[i][1] : i \in DOMAIN topk.pairs}

Min(a, b) == IF a <= b THEN a ELSE b

TopKBasics ==
    /\ Len(topk.pairs) = Min(k, Len(corpus_vecs))
    /\ Returned \subseteq DOMAIN corpus_vecs
    /\ \A i, j \in DOMAIN topk.pairs :
           topk.pairs[i][1] = topk.pairs[j][1] => i = j
    /\ \A i \in DOMAIN topk.pairs : topk.pairs[i][2] = Score(topk.pairs[i][1])
    /\ \A i, j \in DOMAIN topk.pairs :
           i < j => topk.pairs[i][2] >= topk.pairs[j][2]
    /\ \A i \in Returned, j \in DOMAIN corpus_vecs \ Returned :
           Score(i) >= Score(j)

TiesLowerIndexFirst ==
    /\ \A i, j \in DOMAIN topk.pairs :
           (i < j /\ topk.pairs[i][2] = topk.pairs[j][2])
               => topk.pairs[i][1] < topk.pairs[j][1]
    /\ \A i \in Returned, j \in DOMAIN corpus_vecs \ Returned :
           Score(i) = Score(j) => i < j

\* C5 as claimed: for N >= 1 documents and k >= 1, min(k, N) pairs with
\* distinct valid indices, in non-increasing score order, no score left out
\* above a returned one, and among equal scores the lower corpus index
\* first (and kept, when only one of them fits).
C5_TopKTiesByCorpusOrder ==
    (topk.called /\ k >= 1) => (TopKBasics /\ TiesLowerIndexFirst)

\* C5 as the code has it: for N >= 1 documents and k >= 1, min(k, N) pairs
\* with distinct valid indices, each with its document's score, in
\* non-increasing score order, no score left out above a returned one; the
\* order among equal scores is not part of it.
C5_TopK ==
    (topk.called /\ k >= 1) => TopKBasics

\* a top-2 query over three documents of which two score the same, the
\* returned scores differing
C5_Witness ==
    /\ topk.called
    /\ k = 2
    /\ Len(corpus_vecs) = 3
    /\ Len(topk.pairs) = 2
    /\ topk.pairs[1][2] > topk.pairs[2][2]
    /\ \E j \in DOMAIN corpus_vecs \ Returned : Score(j) = topk.pairs[2][2]

\* ------------------------------------------------------------------------
\* chat_llm, _chat_ollama, _chat_remote
\* ------------------------------------------------------------------------
IsDict(v) == v.t = "obj"

IsList(v) == v.t = "list"

IsStr(v) == v.t = "str"

\* key in v, for a dict v
Has(v, key) == key \in DOMAIN v.o

\* bool(v)
Truthy(v) ==
    CASE v.t = "str"  -> v.s # <<>>
      [] v.t = "list" -> v.l # <<>>
      [] v.t = "obj"  -> DOMAIN v.o # {}
      [] OTHER        -> FALSE

Raise == [raised |-> TRUE, value |-> JNull]

Ret(v) == [raised |-> FALSE, value |-> v]

\* v.get(key, default): AttributeError unless v is a dict
DictGet(v, key, default) ==
    IF ~IsDict(v) THEN Raise
    ELSE Ret(IF Has(v, key) THEN v.o[key] ELSE default)

\* holder.get("message", {}).get("content", "")
MessageContent(holder) ==
    LET m == DictGet(holder, "message", JObj(<<>>))
    IN  IF m.raised THEN Raise ELSE DictGet(m.value, "content", EmptyStr)

\* "".join(parts): TypeError unless every part is a str
RECURSIVE JoinStrs(_)
JoinStrs(parts) ==
    IF parts = <<>> THEN <<>> ELSE parts[1].s \o JoinStrs(Tail(parts))

\* "".join([chunk.get("message", {}).get("content", "") for chunk in data])
JoinChunks(chunks) ==
    LET got == [i \in DOMAIN chunks |-> MessageContent(chunks[i])]
    IN  IF \E i \in DOMAIN got : got[i].raised \/ ~IsStr(got[i].value) THEN Raise
        ELSE Ret(JStr(JoinStrs([i \in DOMAIN got |-> got[i].value])))

\* _chat_ollama after r.json()
ParseOllama(data) ==
    IF IsDict(data) /\ Has(data, "message")
        THEN DictGet(data.o["message"], "content", EmptyStr)
    ELSE IF IsList(data) THEN JoinChunks(data.l)
    ELSE Ret(EmptyStr)

\* data["choices"][0]: the first entry of a list; a str gives a str; a dict
\* has no key 0
FirstChoice(choices) ==
    CASE choices.t = "list" -> Ret(choices.l[1])
      [] choices.t = "str"  -> Ret(JStr(<<choices.s[1]>>))
      [] OTHER              -> Raise

\* _chat_remote after r.json()
ParseRemote(data) ==
    IF IsDict(data) THEN
        IF Has(data, "text") THEN Ret(data.o["text"])
        ELSE IF Has(data, "choices") /\ Truthy(data.o["choices"]) THEN
            LET c == FirstChoice(data.o["choices"])
            IN  IF c.raised THEN Raise ELSE MessageContent(c.value)
        ELSE Ret(EmptyStr)
    ELSE Ret(EmptyStr)

\* requests.post raises on a connection error or a timeout;
\* r.raise_for_status() on a 4xx or 5xx status; r.json() on a body that is
\* not JSON
TransportFails(resp) ==
    \/ resp.net = "error"
    \/ resp.status >= 400
    \/ resp.body = NotJson

\* mutant: r.raise_for_status() left out
ChatOllama_NoStatusCheck(resp) ==
    IF resp.net = "error" \/ resp.body = NotJson THEN Raise
    ELSE ParseOllama(resp.body)

ChatOllama(resp) ==
    IF TransportFails(resp) THEN Raise ELSE ParseOllama(resp.body)

ChatRemote(resp) ==
    IF TransportFails(resp) THEN Raise ELSE ParseRemote(resp.body)

UsesRemote(cfg) == cfg.provider = "remote" /\ cfg.endpoint # ""

\* chat_llm: the reply of the configured backend
ChatLLM(cfg, resp) ==
    IF UsesRemote(cfg) THEN ChatRemote(resp) ELSE ChatOllama(resp)

\* mutant: a failed request is sent a second time
PostsPerCall_Retry(cfg, resp) == IF TransportFails(resp) THEN 2 ELSE 1

\* requests.post calls of one chat_llm call: the one of _chat_ollama or the
\* one of _chat_remote
PostsPerCall(cfg, resp) == 1

InitLLM ==
    /\ IdleDiff
    /\ IdleNorm
    /\ IdleTopK
    /\ IdleApp
    /\ llmCfg \in Configs
    /\ llmResp \in Responses
    /\ llmOut = NoLlmOut
    /\ httpRequests = 0

chat_llm ==
    /\ ~llmOut.called
    /\ LET r == ChatLLM(llmCfg, llmResp)
       IN  llmOut' = [called |-> TRUE, raised |-> r.raised, value |-> r.value]
    /\ httpRequests' = httpRequests + PostsPerCall(llmCfg, llmResp)
    /\ UNCHANGED <<llmCfg, llmResp, diffVars, normVars, topkVars, appVars>>

NextLLM == chat_llm

SpecLLM == InitLLM /\ [][NextLLM]_vars

\* ------------------------------------------------------------------------
\* Properties of chat_llm
\* ------------------------------------------------------------------------
HasStrContent(holder) ==
    /\ IsDict(holder) /\ Has(holder, "message")
    /\ IsDict(holder.o["message"]) /\ Has(holder.o["message"], "content")
    /\ IsStr(holder.o["message"].o["content"])

\* the body holds the content the backend's contract names: message.content
\* (or chunks of it) for the local backend, text or
\* choices[0].message.content for the remote one
ExpectedContent(cfg, body) ==
    IF UsesRemote(cfg)
    THEN /\ IsDict(body)
         /\ \/ Has(body, "text") /\ IsStr(body.o["text"])
            \/ /\ Has(body, "choices")
               /\ IsList(body.o["choices"])
               /\ body.o["choices"].l # <<>>
               /\ HasStrContent(body.o["choices"].l[1])
    ELSE \/ HasStrContent(body)
         \/ /\ IsList(body)
            /\ body.l # <<>>
            /\ \A i \in DOMAIN body.l : HasStrContent(body.l[i])

\* the body is JSON and has none of the entries the parser looks for
NoExpectedEntry(cfg, body) ==
    /\ body # NotJson
    /\ IF UsesRemote(cfg)
       THEN IsDict(body) =>
                /\ ~Has(body, "text")
                /\ Has(body, "choices") => ~Truthy(body.o["choices"])
       ELSE /\ ~IsList(body)
            /\ IsDict(body) => ~Has(body, "message")

\* C7 as claimed: one HTTP request per chat_llm call, and the call raises
\* whenever the request meets a network failure, a non-success status or a
\* body without the expected message / text / choices content.
C7_RaisesOnMalformed ==
    llmOut.called =>
        /\ httpRequests = 1
        /\ (TransportFails(llmResp) \/ ~ExpectedContent(llmCfg, llmResp.body))
               => llmOut.raised

\* C7 as the code has it: one HTTP request per chat_llm call, never a second;
\* the call raises on a network failure, a non-success status or a body that
\* is not JSON; on a JSON body that has none of the entries the parser looks
\* for it returns the empty string instead of raising.
C7_OneRequestRaisesOnTransport ==
    llmOut.called =>
        /\ httpRequests = 1
        /\ TransportFails(llmResp) => llmOut.raised
        /\ (~TransportFails(llmResp) /\ NoExpectedEntry(llmCfg, llmResp.body))
               => (~llmOut.raised /\ llmOut.value = EmptyStr)

\* a 200 reply whose body is {} has been answered with ""
C7_Witness ==
    /\ llmOut.called
    /\ llmResp.net = "ok" /\ llmResp.status = 200
    /\ llmResp.body = JObj(<<>>)
    /\ ~llmOut.raised
    /\ llmOut.value = EmptyStr

\* a reply with status 503 has made the call raise
C7_WitnessStatus ==
    /\ llmOut.called
    /\ llmResp.net = "ok" /\ llmResp.status = 503
    /\ llmOut.raised

\* ------------------------------------------------------------------------
\* chatbot.py: _load_docs and answer_question
\* ------------------------------------------------------------------------
\* docs/1.md, docs/2.txt, ...: file f sorts before file g when f < g, and
\* the text of file f is text f
DocFiles == 1..MaxFiles

\* sorted(list(glob.glob("docs/*.md")) + list(glob.glob("docs/*.txt")))
SortedPaths(dir) ==
    CHOOSE l \in Listings(dir) : \A i, j \in DOMAIN l : i < j => l[i] < l[j]

\* the embedding model, deterministic: texts 1 and 2 embed alike
EmbedText(t) == IF t % 3 = 0 THEN <<0, 1>> ELSE <<1, 0>>

\* embed_texts(texts)
embed_texts(texts) == [i \in DOMAIN texts |-> EmbedText(texts[i])]

\* mutant: the directory is listed even when the corpus is loaded
LoadDocs_AlwaysReads(texts, emb, dir, unreadable, embedOk) ==
    LET paths == SortedPaths(dir)
        read  == SelectSeq(paths, LAMBDA f : f \notin unreadable)
    IN  IF read = <<>>
        THEN [texts |-> <<>>, emb |-> emb, raised |-> FALSE,
              globs |-> 1, embeds |-> 0]
        ELSE IF embedOk
        THEN [texts |-> read, emb |-> [none |-> FALSE, rows |-> embed_texts(read)],
              raised |-> FALSE, globs |-> 1, embeds |-> 1]
        ELSE [texts |-> read, emb |-> emb, raised |-> TRUE,
              globs |-> 1, embeds |-> 1]

\* _load_docs.  unreadable: the files whose open() or read() raises;
\* embedOk: whether embed_texts returns.  The texts are appended to the
\* global list before embed_texts is called and stay there when it raises.
LoadDocs(texts, emb, dir, unreadable, embedOk) ==
    IF texts # <<>>
    THEN [texts |-> texts, emb |-> emb, raised |-> FALSE,
          globs |-> 0, embeds |-> 0]
    ELSE LET paths == SortedPaths(dir)
             read  == SelectSeq(paths, LAMBDA f : f \notin unreadable)
         IN  IF read = <<>>
             THEN [texts |-> <<>>, emb |-> emb, raised |-> FALSE,
                   globs |-> 1, embeds |-> 0]
             ELSE IF embedOk
             THEN [texts |-> read,
                   emb |-> [none |-> FALSE, rows |-> embed_texts(read)],
                   raised |-> FALSE, globs |-> 1, embeds |-> 1]
             ELSE [texts |-> read, emb |-> emb, raised |-> TRUE,
                   globs |-> 1, embeds |-> 1]

RetrievalK == 2

\* extra_context or ""
ExtraOrEmpty(extra) == IF extra.none THEN <<>> ELSE extra.text

\* if _DOC_TEXTS and _DOC_EMB is not None
Retrieves(ld) == ld.texts # <<>> /\ ~ld.emb.none

\* answer_question after _load_docs() has ended as ld.  queryOk: whether
\* the query embedding of top_k_similar returns; idx: the indices
\* top_k_similar returns when it does; resp: what chat_llm's request meets.
\* The context is extra_context or "", followed by the [Doc i] snippets
\* ctxDocs when retrieval has returned.
AnswerQuestion(ld, extra, queryOk, idx, cfg, resp) ==
    IF ld.raised
    THEN [raised |-> TRUE, value |-> JNull, ctxExtra |-> <<>>, ctxDocs |-> <<>>,
          embedRaised |-> TRUE]
    ELSE LET r == ChatLLM(cfg, resp)
         IN  [raised      |-> r.raised,
              value       |-> r.value,
              ctxExtra    |-> ExtraOrEmpty(extra),
              ctxDocs     |-> IF Retrieves(ld) /\ queryOk THEN idx ELSE <<>>,
              embedRaised |-> Retrieves(ld) /\ ~queryOk]

\* ------------------------------------------------------------------------
\* app.py: the session.  The backend is the default one of llm_utils.py
\* (local Ollama); the variables of the chat_llm section stay as they are.
\* ------------------------------------------------------------------------
ColA == <<97>>

ColB == <<98>>

\* schemas typed or pasted as JSON, or fetched from the warehouse
AppSchemas ==
    { <<<<ColA, "VARCHAR">>>>,
      <<<<ColA, "NUMBER">>, <<ColB, "VARCHAR">>>> }

\* uploaded tables: the columns with their dtype
AppFrames ==
    { <<<<ColA, <<"i", "n", "t", "6", "4">>>>>>,
      <<<<ColA, <<"o", "b", "j">>>>, <<ColB, <<"f", "l", "o", "a", "t">>>>>> }

\* infer_schema_from_df
infer_schema_from_df(df) ==
    [i \in DOMAIN df |-> <<df[i][1], ColumnLabel(df[i][2])>>]

\* what a generation request can meet: a reply with text, or a failure
\* (raise_for_status on an error status; a lost connection ends the same)
AppResponses ==
    { [net |-> "ok", status |-> 200,
       body |-> JObj([kk \in {"message"} |->
                        JObj([cc \in {"content"} |-> JStr(<<"hi">>)])])],
      [net |-> "ok", status |-> 503, body |-> NotJson] }

AppQueries == {<<1, 0>>, <<0, 1>>}

\* st.session_state.latest_context or None
ExtraFromContext(ctx) ==
    IF ctx = <<>> THEN NoExtra ELSE [none |-> FALSE, text |-> ctx]

\* f"Existing: {existing_schema}\nNew: {new_schema}\nSQL: {sql}"
UploadSummary(ex, nw, sql) ==
    <<"Existing: ", ex, "\nNew: ", nw, "\nSQL: ", sql>>

\* f"Prev: {prev_schema}\nLive: {live_schema}\nSQL: {sql}"
LiveSummary(prev, live, sql) ==
    <<"Prev: ", prev, "\nLive: ", live, "\nSQL: ", sql>>

InitApp ==
    /\ IdleDiff
    /\ IdleNorm
    /\ IdleTopK
    /\ IdleLLM
    /\ DOC_TEXTS = <<>>
    /\ DOC_EMB = NoEmb
    /\ docsDir \in SUBSET DocFiles
    /\ globCount = 0
    /\ embedCount = 0
    /\ lastAnswer = NoAnswer
    /\ latest_context = <<>>
    /\ lastCycle = NoCycle
    /\ queryLog = <<>>
    /\ event = NoEvent

\* the sets of files whose reading may fail: files are opened only while
\* the corpus is empty
FilesTried == IF DOC_TEXTS = <<>> THEN SUBSET docsDir ELSE {{}}

\* the query is embedded only when there is an index to search
QueriesTried(ld) ==
    IF ~ld.raised /\ Retrieves(ld) THEN AppQueries ELSE {<<1, 0>>}

\* the call answer_question(q, extra) and what it does to the process-wide
\* state; ans is how it ends, gen how a generation request made during the
\* call ends
AnswerCall(extra, ld, ans, gen) ==
    /\ DOC_TEXTS' = ld.texts
    /\ DOC_EMB' = ld.emb
    /\ globCount' = globCount + ld.globs
    /\ embedCount' = embedCount + ld.embeds
    /\ lastAnswer' = [called |-> TRUE, extra |-> extra, raised |-> ans.raised,
                      value |-> ans.value, ctxExtra |-> ans.ctxExtra,
                      ctxDocs |-> ans.ctxDocs, embedRaised |-> ans.embedRaised,
                      gen |-> gen]

\* mutant: the chat question uses the context up
ContextAfterChat_Cleared(ctx) == <<>>

\* the chat tab reads latest_context and does not assign it
ContextAfterChat(ctx) == ctx

\* log_user_query when user_logs.csv can be opened for appending: one row
\* is written after the rows already there. The timestamp column is the
\* wall clock at the call and is left out of the row; the question is
\* written as the model holds it, by its embedding.
log_user_query(rows, username, question, answer) ==
    Append(rows, [user |-> username, question |-> question, answer |-> answer])

\* chat tab: "Get Answer" pressed with a question that is not blank. The
\* answer is rendered before log_user_query is called, and the call is not
\* guarded: when it raises, the exception leaves the script run.
\* logOk: whether log_user_query can append to user_logs.csv.
ChatAsk ==
    /\ event.n < MaxActions
    /\ \E unreadable \in FilesTried, loadOk \in BOOLEAN :
          LET extra == ExtraFromContext(latest_context)
              ld    == LoadDocs(DOC_TEXTS, DOC_EMB, docsDir, unreadable, loadOk)
          IN  \E queryOk \in BOOLEAN, qvec \in QueriesTried(ld),
                 resp \in AppResponses, logOk \in BOOLEAN :
              \E order \in ArgsortOutcomes(cosine_similarity_matrix(qvec, ld.emb.rows)) :
                 LET ans == AnswerQuestion(ld, extra, queryOk,
                                TopIndices(order, RetrievalK), DefaultCfg, resp)
                 IN  /\ AnswerCall(extra, ld, ans, ChatLLM(DefaultCfg, resp))
                     /\ queryLog' = IF ~ans.raised /\ logOk
                                     THEN log_user_query(queryLog, "guest",
                                                         qvec, ans.value)
                                     ELSE queryLog
                     /\ event' = [kind |-> "chat",
                                  raised |-> ans.raised \/ ~logOk,
                                  n |-> event.n + 1]
    /\ latest_context' = ContextAfterChat(latest_context)
    /\ UNCHANGED <<lastCycle, docsDir, llmVars, diffVars, normVars, topkVars>>

\* FAQ tab: "Answer with AI" pressed on a chosen question
FaqAsk ==
    /\ event.n < MaxActions
    /\ \E unreadable \in FilesTried, loadOk \in BOOLEAN :
          LET ld == LoadDocs(DOC_TEXTS, DOC_EMB, docsDir, unreadable, loadOk)
          IN  \E queryOk \in BOOLEAN, qvec \in QueriesTried(ld),
                 resp \in AppResponses :
              \E order \in ArgsortOutcomes(cosine_similarity_matrix(qvec, ld.emb.rows)) :
                 LET ans == AnswerQuestion(ld, NoExtra, queryOk,
                                TopIndices(order, RetrievalK), DefaultCfg, resp)
                 IN  /\ AnswerCall(NoExtra, ld, ans, ChatLLM(DefaultCfg, resp))
                     /\ event' = [kind |-> "faq", raised |-> ans.raised,
                                  n |-> event.n + 1]
    /\ UNCHANGED <<latest_context, lastCycle, queryLog, docsDir,
                   llmVars, diffVars, normVars, topkVars>>

\* mutant: the summary is saved although generate_sql_with_ai raised
CycleCompletes_IgnoringSql(e, g) == ~e.raised

\* the assignment to latest_context is reached when neither
\* explain_changes_with_ai nor generate_sql_with_ai has raised
CycleCompletes(e, g) == ~e.raised /\ ~g.raised

\* schema tab, upload mode: a file and a valid existing schema are given
\* and "Ask AI to explain & generate SQL" is pressed.  The detected schema
\* and the compare_schemas result are only displayed.
UploadAnalyze ==
    /\ event.n < MaxActions
    /\ \E ex \in AppSchemas, df \in AppFrames, r1 \in AppResponses,
          r2 \in AppResponses :
          LET nw   == infer_schema_from_df(df)
              e    == ChatLLM(DefaultCfg, r1)
              g    == ChatLLM(DefaultCfg, r2)
              done == CycleCompletes(e, g)
          IN  /\ latest_context' = IF done THEN UploadSummary(ex, nw, g.value)
                                    ELSE latest_context
              /\ lastCycle' = IF ~e.raised /\ ~g.raised
                               THEN [done |-> TRUE, mode |-> "upload",
                                     baseline |-> ex, candidate |-> nw,
                                     sql |-> g.value]
                               ELSE lastCycle
              /\ event' = [kind |-> "upload", raised |-> e.raised \/ g.raised,
                           n |-> event.n + 1]
    /\ UNCHANGED <<docVars, queryLog, llmVars, diffVars, normVars, topkVars>>

\* schema tab, live mode: the live schema has been fetched, the previous
\* snapshot parses and "Analyze changes with AI" is reported pressed in the
\* run in which "Fetch live schema" is
LiveAnalyze ==
    /\ event.n < MaxActions
    /\ \E prev \in AppSchemas, live \in AppSchemas, r1 \in AppResponses,
          r2 \in AppResponses :
          LET e    == ChatLLM(DefaultCfg, r1)
              g    == ChatLLM(DefaultCfg, r2)
              done == CycleCompletes(e, g)
          IN  /\ latest_context' = IF done THEN LiveSummary(prev, live, g.value)
                                    ELSE latest_context
              /\ lastCycle' = IF ~e.raised /\ ~g.raised
                               THEN [done |-> TRUE, mode |-> "live",
                                     baseline |-> prev, candidate |-> live,
                                     sql |-> g.value]
                               ELSE lastCycle
              /\ event' = [kind |-> "live", raised |-> e.raised \/ g.raised,
                           n |-> event.n + 1]
    /\ UNCHANGED <<docVars, queryLog, llmVars, diffVars, normVars, topkVars>>

\* somebody puts a file into docs/ while the process runs
DocFileAppears ==
    /\ \E f \in DocFiles \ docsDir : docsDir' = docsDir \cup {f}
    /\ UNCHANGED <<DOC_TEXTS, DOC_EMB, globCount, embedCount, lastAnswer,
                   sessionVars, llmVars, diffVars, normVars, topkVars>>

Next ==
    \/ ChatAsk
    \/ FaqAsk
    \/ UploadAnalyze
    \/ LiveAnalyze
    \/ DocFileAppears

Spec == InitApp /\ [][Next]_vars

\* ------------------------------------------------------------------------
\* Properties of the answering pipeline and of the session
\* ------------------------------------------------------------------------
GenerationSucceeds(a) == ~a.gen.raised

\* C3: when the embedding backend raises during an answer_question call
\* (in the first-use load or while embedding the query) and the generation
\* backend succeeds, the call does not raise: it returns the backend's text
\* for a prompt whose context is extra_context alone (empty when none).
C3_AnswersWithoutRetrieval ==
    (lastAnswer.called /\ lastAnswer.embedRaised /\ GenerationSucceeds(lastAnswer))
        => /\ ~lastAnswer.raised
           /\ lastAnswer.value = lastAnswer.gen.value
           /\ lastAnswer.ctxDocs = <<>>
           /\ lastAnswer.ctxExtra = ExtraOrEmpty(lastAnswer.extra)

CorpusUntouched ==
    /\ DOC_TEXTS' = DOC_TEXTS
    /\ DOC_EMB' = DOC_EMB
    /\ globCount' = globCount
    /\ embedCount' = embedCount

AnswerStep == event'.n = event.n + 1 /\ event'.kind \in {"chat", "faq"}

ExpectedContext ==
    IF ~lastCycle.done THEN <<>>
    ELSE IF lastCycle.mode = "upload"
    THEN <<"Existing: ", lastCycle.baseline, "\nNew: ", lastCycle.candidate,
           "\nSQL: ", lastCycle.sql>>
    ELSE <<"Prev: ", lastCycle.baseline, "\nLive: ", lastCycle.candidate,
           "\nSQL: ", lastCycle.sql>>

ChatStep == event'.n = event.n + 1 /\ event'.kind = "chat"

FailedCycleStep ==
    event'.n = event.n + 1 /\ event'.kind \in {"upload", "live"} /\ event'.raised

\* C6: latest_context is empty while no diff-and-generate cycle has
\* completed and otherwise the summary of the latest completed cycle (upload
\* or live); a chat question passes the current value to answer_question as
\* extra_context and leaves it as it is; a cycle whose generation step
\* fails leaves it as it is.
C6_LatestContext ==
    /\ [](latest_context = ExpectedContext)
    /\ [][ChatStep => /\ latest_context' = latest_context
                       /\ ExtraOrEmpty(lastAnswer'.extra) = latest_context]_vars
    /\ [][FailedCycleStep => latest_context' = latest_context]_vars

\* a chat question asked after a completed live cycle that followed another
\* cycle: the question got the live summary and left it in place
C6_Witness ==
    /\ event.kind = "chat" /\ event.n = 3
    /\ lastCycle.done /\ lastCycle.mode = "live"
    /\ lastAnswer.called /\ ~lastAnswer.raised
    /\ lastAnswer.ctxExtra = latest_context
    /\ latest_context # <<>>

ChatAnswered ==
    /\ ChatStep
    /\ lastAnswer'.called /\ ~lastAnswer'.raised

OneRowAppended ==
    /\ Len(queryLog') = Len(queryLog) + 1
    /\ SubSeq(queryLog', 1, Len(queryLog)) = queryLog
    /\ queryLog'[Len(queryLog')].user = "guest"
    /\ queryLog'[Len(queryLog')].answer = lastAnswer'.value

\* C11: each answered free-form chat question appends exactly one record
\* (user, question, answer) to the query log, the earlier records staying
\* as they are; and when the append fails the log is left alone and the
\* chat action still ends without an error, the answer having been given.
C11_LogFailureIsSilent ==
    [][ChatAnswered => /\ OneRowAppended \/ queryLog' = queryLog
                       /\ ~event'.raised]_vars

====
